---- MODULE Spec2Model ----
(***************************************************************************)
(* A model of openrouter-provider-shim: the provider-policy merge          *)
(* (src/src/policy/providerPolicy.ts) and the request handler that         *)
(* transforms a request, dispatches it upstream with retries on 429 and    *)
(* relays the response (src/src/server.ts).                                *)
(*                                                                         *)
(* JavaScript values are tagged pairs <<kind, payload>>; objects live on a *)
(* heap, so that aliasing and in-place assignment (out.provider = ...) are *)
(* visible.                                                                *)
(* An object is the sequence of its own properties <<key, value>> in       *)
(* insertion order.  JSON text is modelled by its syntax tree, in which an *)
(* object is the ordered sequence of its members: two texts are the same   *)
(* string exactly when their trees are equal.                              *)
(***************************************************************************)
EXTENDS Integers, Sequences, FiniteSets, TLC

VARIABLES
    heap,             \* the JavaScript heap: address -> object
    heap0,            \* the heap as it was when the call was made / the body parsed
    body,             \* argument `body` of applyProviderPolicy; the parsed request body
    policy,           \* argument `policy`; cfg.policy
    mode,             \* argument `mode`; cfg.merge_mode
    softEnforceOnly,  \* argument `softEnforceOnly`; cfg._runtime.soft_enforce_only
    pc,               \* the position of the call or of the request handler
    result,           \* the returned value (pc = "returned"); the body sent upstream
    error,            \* the thrown error (pc = "threw")
    cfg,              \* the other fields of the shim's configuration
    env,              \* process.env.ANTHROPIC_MODEL
    req,              \* the inbound request: method and path (with its headers in AuthSpec)
    res,              \* the response to the client
    retries,          \* `retries` of the dispatch loop
    calls,            \* how many times fetch(upstream) was called
    delays,           \* the delays the dispatch loop has waited, in order
    outcomes,         \* what each upstream call ended with, in order
    requestBody,      \* the JSON text that was sent upstream
    upstreamAuth,     \* the authorization header that was sent upstream
    clientGone,       \* the client has closed its connection
    firstOutput,      \* the body the first application of the transform gave
    handlers,         \* the handler invocations in flight together: id -> its locals
    alone             \* id -> the same request handled alone, on a heap of its own

policyVars == <<heap, heap0, body, policy, mode, softEnforceOnly, pc, result, error>>

\* the policy variables but the position
bodyVars == <<heap, heap0, body, policy, mode, softEnforceOnly, result, error>>

serverVars ==
    <<cfg, env, req, res, retries, calls, delays, outcomes, requestBody, upstreamAuth,
      clientGone, firstOutput, handlers, alone>>

vars == <<policyVars, serverVars>>

----------------------------------------------------------------------------
(* JavaScript values *)

Undef == <<"undef", <<>>>>
Null == <<"null", <<>>>>
Bool(b) == <<"bool", b>>
Str(s) == <<"str", s>>
Arr(l) == <<"arr", l>>
Ref(a) == <<"ref", a>>
Obj(members) == <<"obj", members>>

\* ToBoolean: undefined, null, false and "" are falsy, arrays and objects truthy
Truthy(x) ==
    CASE x[1] = "undef" -> FALSE
      [] x[1] = "null" -> FALSE
      [] x[1] = "bool" -> x[2]
      [] x[1] = "str" -> x[2] # ""
      [] OTHER -> TRUE

\* x ?? y
Nullish(x) == x[1] \in {"undef", "null"}

----------------------------------------------------------------------------
(* Objects: own properties in insertion order *)

HasKey(obj, key) == \E i \in 1..Len(obj) : obj[i][1] = key

GetProp(obj, key) ==
    IF HasKey(obj, key)
    THEN obj[CHOOSE i \in 1..Len(obj) : obj[i][1] = key][2]
    ELSE Undef

\* obj[key] = val: an existing key keeps its position, a new key goes last
SetProp(obj, key, val) ==
    IF HasKey(obj, key)
    THEN [i \in 1..Len(obj) |-> IF obj[i][1] = key THEN <<key, val>> ELSE obj[i]]
    ELSE Append(obj, <<key, val>>)

\* x[key] / x.key for a non-nullish x; a primitive has none of the keys used
Prop(H, x, key) == IF x[1] = "ref" THEN GetProp(H[x[2]], key) ELSE Undef

\* the own enumerable properties that `...x` copies
OwnEntries(H, x) == IF x[1] = "ref" THEN H[x[2]] ELSE <<>>

RECURSIVE AssignAll(_, _)
AssignAll(obj, es) ==
    IF es = <<>> THEN obj
    ELSE AssignAll(SetProp(obj, Head(es)[1], Head(es)[2]), Tail(es))

\* { ...b, ...a }: the operands in the wrong order
Spread_swapped(H, a, b) == AssignAll(AssignAll(<<>>, OwnEntries(H, b)), OwnEntries(H, a))

\* the object literal { ...a, ...b }
Spread(H, a, b) == AssignAll(AssignAll(<<>>, OwnEntries(H, a)), OwnEntries(H, b))

\* H with x.key = val, x a reference
Assign(H, x, key, val) == [H EXCEPT ![x[2]] = SetProp(H[x[2]], key, val)]

----------------------------------------------------------------------------
(* Building objects from a literal / from parsed JSON *)

RECURSIVE Alloc(_, _), AllocMembers(_, _, _)
\* allocate the objects of tree t on H; scalars and arrays are values
Alloc(H, t) ==
    IF t[1] = "obj"
    THEN LET r == AllocMembers(H, t[2], <<>>)
         IN  [heap |-> Append(r.heap, r.obj), value |-> Ref(Len(r.heap) + 1)]
    ELSE [heap |-> H, value |-> t]
AllocMembers(H, ms, acc) ==
    IF ms = <<>> THEN [heap |-> H, obj |-> acc]
    ELSE LET p == Alloc(H, Head(ms)[2])
         IN  AllocMembers(p.heap, Tail(ms), Append(acc, <<Head(ms)[1], p.value>>))

----------------------------------------------------------------------------
(* JSON.stringify / JSON.parse *)

RECURSIVE JSONstringify(_, _)
\* The text of x as its syntax tree.  JSON.stringify(undefined) is undefined,
\* not a string; a property whose value is undefined is left out of the text.
JSONstringify(H, x) ==
    CASE x[1] = "undef" -> Undef
      [] x[1] = "ref" ->
            LET own == SelectSeq(H[x[2]], LAMBDA e : e[2][1] # "undef")
            IN  Obj([i \in 1..Len(own) |-> <<own[i][1], JSONstringify(H, own[i][2])>>])
      [] OTHER -> x

\* every object of the text is a fresh object
JSONparse(H, text) == Alloc(H, text)

\* deepClone (providerPolicy.ts:3-5) with the clone aliasing its argument
deepClone_alias(H, x) == [heap |-> H, value |-> x]

deepClone(H, x) == JSONparse(H, JSONstringify(H, x))

----------------------------------------------------------------------------
(* providerPolicy.ts *)

\* !a?.length
NoLength(a) == Nullish(a) \/ (a[1] = "arr" /\ Len(a[2]) = 0)

Member(x, l) == \E i \in 1..Len(l) : l[i] = x

\* intersect with the roles of a and b swapped in the filter (policy's order)
intersect_filterA(a, b) ==
    IF NoLength(a) \/ NoLength(b)
    THEN (IF Nullish(a) THEN b ELSE a)
    ELSE Arr(SelectSeq(a[2], LAMBDA x : Member(x, b[2])))

\* intersect giving the other list when the first is empty
intersect_otherWhenEmpty(a, b) ==
    IF NoLength(a) THEN b
    ELSE IF NoLength(b) THEN a
    ELSE Arr(SelectSeq(b[2], LAMBDA x : Member(x, a[2])))

intersect(a, b) ==
    IF NoLength(a) \/ NoLength(b)
    THEN (IF Nullish(a) THEN b ELSE a)                  \* a ?? b
    ELSE Arr(SelectSeq(b[2], LAMBDA x : Member(x, a[2])))  \* b.filter(x => set.has(x))

\* the strict loop's test with `rv == null` in place of `rv === undefined`
Conflicts_looseMissing(H, pol, reqProv) ==
    LET es == H[pol[2]]
    IN  { i \in 1..Len(es) :
            LET rv == Prop(H, reqProv, es[i][1])
            IN  /\ ~Nullish(rv)
                /\ JSONstringify(H, rv) # JSONstringify(H, es[i][2]) }

\* the entries [k, v] of policy at which the strict loop throws
Conflicts(H, pol, reqProv) ==
    LET es == H[pol[2]]
    IN  { i \in 1..Len(es) :
            LET rv == Prop(H, reqProv, es[i][1])
            IN  /\ rv # Undef
                /\ JSONstringify(H, rv) # JSONstringify(H, es[i][2]) }

Min(S) == CHOOSE i \in S : \A j \in S : i <= j

NoError == [code |-> "", field |-> ""]

Returned(H, x) == [heap |-> H, pc |-> "returned", result |-> x, error |-> NoError]

Threw(H, code, field) ==
    [heap |-> H, pc |-> "threw", result |-> Undef,
     error |-> [code |-> code, field |-> field]]

\* the injection with the assignment to out.provider forgotten
InjectPolicy_skip(H, out, pol) == Returned(H, out)

\* the injection written onto the body itself: Object.assign(out, policy)
InjectPolicy_leak(H, out, pol) ==
    LET c == deepClone(H, pol)
    IN  Returned([c.heap EXCEPT ![out[2]] = AssignAll(@, OwnEntries(c.heap, c.value))], out)

\* out.provider = deepClone(policy); return out
InjectPolicy(H, out, pol) ==
    LET c == deepClone(H, pol)
    IN  Returned(Assign(c.heap, out, "provider", c.value), out)

\* override that keeps the client's fields the policy does not set
OverrideProvider_keepClient(H, out, pol) ==
    LET c == deepClone(H, pol)
        merged == Spread(c.heap, Prop(c.heap, out, "provider"), c.value)
        H1 == Append(c.heap, merged)
    IN  Returned(Assign(H1, out, "provider", Ref(Len(H1))), out)

\* override that takes the client's provider away and installs nothing
OverrideProvider_drop(H, out, pol) == Returned(Assign(H, out, "provider", Undef), out)

OverrideProvider(H, out, pol) ==
    LET c == deepClone(H, pol)
    IN  Returned(Assign(c.heap, out, "provider", c.value), out)

\* the merge without the fill from the policy: out.provider = { ...reqProv }
MergeProvider_noFill(H, out, pol, reqProv, soft) ==
    LET H1 == Append(H, Spread(H, reqProv, Undef))
    IN  Returned(Assign(H1, out, "provider", Ref(Len(H1))), out)

\* out.provider = { ...deepClone(policy), ...reqProv }, then the soft-enforce
\* intersection of `only`; return out
MergeProvider(H, out, pol, reqProv, soft) ==
    LET c == deepClone(H, pol)
        H1 == Append(c.heap, Spread(c.heap, c.value, reqProv))
        prov == Ref(Len(H1))
        H2 == Assign(H1, out, "provider", prov)
        pOnly == Prop(H2, pol, "only")
        rOnly == Prop(H2, reqProv, "only")
    IN  IF soft /\ Truthy(pOnly) /\ Truthy(rOnly)
        THEN Returned(Assign(H2, prov, "only", intersect(pOnly, rOnly)), out)
        ELSE Returned(H2, out)

\* strict mode: the conflict scan, then the same fill as merge mode
StrictProvider(H, out, pol, reqProv, soft) ==
    LET bad == Conflicts(H, pol, reqProv)
    IN  IF bad # {}
        THEN Threw(H, "ERR_PROVIDER_CONFLICT", H[pol[2]][Min(bad)][1])
        ELSE MergeProvider(H, out, pol, reqProv, soft)

applyProviderPolicy(H, b, pol, m, soft) ==
    IF ~Truthy(pol) \/ Len(OwnEntries(H, pol)) = 0
    THEN Returned(H, b)
    ELSE LET lit == IF Nullish(b) THEN Alloc(H, Obj(<<>>))     \* body ?? {}
                    ELSE [heap |-> H, value |-> b]
             c == deepClone(lit.heap, lit.value)
             out == c.value
             reqProv == Prop(c.heap, out, "provider")
         IN  CASE ~Truthy(reqProv) -> InjectPolicy(c.heap, out, pol)
               [] m = "override" -> OverrideProvider(c.heap, out, pol)
               [] m = "strict" -> StrictProvider(c.heap, out, pol, reqProv, soft)
               [] OTHER -> MergeProvider(c.heap, out, pol, reqProv, soft)

----------------------------------------------------------------------------
(* The calls the model makes *)

MaxOnlyLen == 2

ClientNames == {"fireworks", "moonshotai", "hyperbolic"}

\* the allow-lists a client sends: every list of at most MaxOnlyLen names
ClientLists == UNION { [1..n -> ClientNames] : n \in 0..MaxOnlyLen }

\* the allow-lists the policy is configured with
PolicyLists ==
    { <<>>, <<"fireworks">>, <<"fireworks", "moonshotai">>,
      <<"moonshotai", "fireworks">>, <<"fireworks", "fireworks">> }

\* marks a member an object literal leaves out
Absent == <<"absent", <<>>>>

\* the optional member key: x of an object literal
Opt(key, x) == IF x[1] = "absent" THEN <<>> ELSE <<(<<key, x>>)>>

SortObject == Obj(<< <<"by", Str("price")>>, <<"partition", Str("none")>> >>)
SortObjectSwapped == Obj(<< <<"partition", Str("none")>>, <<"by", Str("price")>> >>)

\* ProviderPolicy values (config.ts:17-35).  A key can be present with the
\* value undefined: config.ts:249 and :282 assign parseProviderSort's result,
\* which is undefined for a string that is no sort.  Both orders of the two
\* keys occur: the policy is spread together from the config file, the
\* environment and the command line (config.ts:299-303).
Policies ==
    UNION { { Obj(Opt("only", o) \o Opt("sort", s)),
              Obj(Opt("sort", s) \o Opt("only", o)) } :
        o \in {Absent} \cup { Arr(l) : l \in PolicyLists },
        s \in {Absent, Str("throughput"), SortObject, Undef} }

\* what a JSON request body can carry under `provider`
ClientProviders ==
    {Null, Bool(TRUE)} \cup
    { Obj(Opt("order", r) \o Opt("only", o) \o Opt("sort", s)) :
        r \in {Absent, Arr(<<"moonshotai">>)},
        o \in {Absent, Null} \cup { Arr(l) : l \in ClientLists },
        s \in {Absent, Str("throughput"), Str("price"), SortObject, SortObjectSwapped} }

\* parsed JSON request bodies (http.ts:18-22), or no body at all
Bodies ==
    {Null, Obj(<<>>),
     Obj(<< <<"model", Str("moonshotai/kimi-k2.5")>>,
            <<"metadata", Obj(<< <<"user_id", Str("u1")>> >>)>> >>)} \cup
    { Obj(<< <<"model", Str("moonshotai/kimi-k2.5")>>, <<"provider", p>>,
             <<"metadata", Obj(<< <<"user_id", Str("u1")>> >>)>> >>) :
        p \in ClientProviders }

Modes == {"merge", "override", "strict"}

\* no request is being handled
NoRequest ==
    /\ cfg = <<>>
    /\ env = Undef
    /\ req = <<>>
    /\ res = <<>>
    /\ retries = 0
    /\ calls = 0
    /\ delays = <<>>
    /\ outcomes = <<>>
    /\ requestBody = Undef
    /\ upstreamAuth = Undef
    /\ clientGone = FALSE
    /\ firstOutput = Undef
    /\ handlers = <<>>
    /\ alone = <<>>

PolicyInit ==
    /\ NoRequest
    /\ \E p \in Policies, b \in Bodies :
        LET hp == Alloc(<<>>, p)
            hb == Alloc(hp.heap, b)
        IN  /\ heap = hb.heap
            /\ heap0 = hb.heap
            /\ policy = hp.value
            /\ body = hb.value
    /\ mode = "merge"
    /\ softEnforceOnly = FALSE
    /\ pc = "call"
    /\ result = Undef
    /\ error = NoError

\* one call applyProviderPolicy(body, policy, mode, softEnforceOnly)
ApplyProviderPolicy ==
    /\ pc = "call"
    /\ \E m \in Modes, soft \in BOOLEAN :
        LET r == applyProviderPolicy(heap, body, policy, m, soft)
        IN  /\ mode' = m
            /\ softEnforceOnly' = soft
            /\ heap' = r.heap
            /\ pc' = r.pc
            /\ result' = r.result
            /\ error' = r.error
    /\ UNCHANGED <<heap0, body, policy>>
    /\ UNCHANGED serverVars

PolicyNext == ApplyProviderPolicy

PolicySpec == PolicyInit /\ [][PolicyNext]_vars

----------------------------------------------------------------------------
(* Vocabulary of the properties *)

RECURSIVE DeepValue(_, _)
\* the value of x up to deep equality: the order of an object's keys does not
\* count, nor does a property whose value is undefined
DeepValue(H, x) ==
    IF x[1] = "ref"
    THEN <<"object",
           { <<H[x[2]][i][1], DeepValue(H, H[x[2]][i][2])>> :
                 i \in { j \in 1..Len(H[x[2]]) : H[x[2]][j][2] # Undef } }>>
    ELSE x

\* the fields set on x: the keys whose value is not undefined
FieldsSet(H, x) ==
    IF x[1] = "ref"
    THEN { H[x[2]][i][1] : i \in { j \in 1..Len(H[x[2]]) : H[x[2]][j][2] # Undef } }
    ELSE {}

Field(H, x, key) == DeepValue(H, Prop(H, x, key))

\* the policy has at least one own key (providerPolicy.ts:19)
NonEmptyPolicy == Len(heap0[policy[2]]) > 0

\* the client's `provider` as the caller passed it
ClientProv == Prop(heap0, body, "provider")
HasClientObject == ClientProv[1] = "ref"

\* the `provider` of the returned body
ResultProv == Prop(heap, result, "provider")

PolicySet == FieldsSet(heap0, policy)
ClientSet == FieldsSet(heap0, ClientProv)

\* the fields both sides set, to values that are not deep-equal
Mismatches ==
    { f \in PolicySet \cap ClientSet :
        Field(heap0, policy, f) # Field(heap0, ClientProv, f) }

RECURSIVE FilterTo(_, _)
\* the list l without the names that are not in S, order kept
FilterTo(l, S) ==
    IF l = <<>> THEN <<>>
    ELSE IF Head(l) \in S THEN <<Head(l)>> \o FilterTo(Tail(l), S)
    ELSE FilterTo(Tail(l), S)

Range(l) == { l[i] : i \in 1..Len(l) }

----------------------------------------------------------------------------
(* Properties of applyProviderPolicy, checked under PolicySpec *)

\* C1: merge mode, softEnforceOnly off, a non-empty policy P and a client
\* provider object C: the call returns; every field set in C has C's value in
\* the result's provider, every field set in P but not in C has P's value, and
\* the result's provider sets no other field.
C1_MergeClientWins ==
    (pc # "call" /\ mode = "merge" /\ ~softEnforceOnly /\ NonEmptyPolicy
        /\ HasClientObject)
    => /\ pc = "returned"
       /\ \A f \in ClientSet :
            Field(heap, ResultProv, f) = Field(heap0, ClientProv, f)
       /\ \A f \in PolicySet \ ClientSet :
            Field(heap, ResultProv, f) = Field(heap0, policy, f)
       /\ FieldsSet(heap, ResultProv) = ClientSet \cup PolicySet

\* a merge in which the client overrides one policy field and omits another
C1_Witness ==
    /\ pc = "returned" /\ mode = "merge" /\ ~softEnforceOnly
    /\ HasClientObject
    /\ "only" \in Mismatches
    /\ "sort" \in PolicySet \ ClientSet
    /\ "order" \in ClientSet

\* C2: override mode, a non-empty policy P, any body: the call returns and the
\* result's provider deep-equals P, so it has no field P does not set.
C2_OverrideEqualsPolicy ==
    (pc # "call" /\ mode = "override" /\ NonEmptyPolicy)
    => /\ pc = "returned"
       /\ DeepValue(heap, ResultProv) = DeepValue(heap0, policy)
       /\ FieldsSet(heap, ResultProv) = PolicySet

\* an override that discards a field only the client set
C2_Witness ==
    /\ pc = "returned" /\ mode = "override" /\ NonEmptyPolicy
    /\ HasClientObject
    /\ "order" \in ClientSet
    /\ Mismatches # {}
    /\ PolicySet # {}

\* C3: a non-empty policy P, any mode and either soft-enforce setting, a body
\* with no provider object: the call returns (no conflict is raised) and the
\* result's provider deep-equals P.
C3_BaselineInjection ==
    (pc # "call" /\ NonEmptyPolicy /\ ~HasClientObject)
    => /\ pc = "returned"
       /\ DeepValue(heap, ResultProv) = DeepValue(heap0, policy)

\* an injection in strict mode with soft-enforce on, into a body that has
\* other fields but no provider
C3_Witness ==
    /\ pc = "returned" /\ mode = "strict" /\ softEnforceOnly
    /\ body[1] = "ref" /\ ClientProv = Undef
    /\ "model" \in FieldsSet(heap0, body)
    /\ {"only", "sort"} \subseteq PolicySet

\* C4: strict mode, some field set in the policy is set in the client's
\* provider object to a value that is not equal: the call throws the conflict
\* error ERR_PROVIDER_CONFLICT, the error names a conflicting field, and no
\* body is returned.
C4_StrictConflict ==
    (pc # "call" /\ mode = "strict" /\ NonEmptyPolicy /\ HasClientObject
        /\ Mismatches # {})
    => /\ pc = "threw"
       /\ error.code = "ERR_PROVIDER_CONFLICT"
       /\ error.field \in Mismatches
       /\ result = Undef

\* C4 without its part about which field the error names: the rejection
\* itself, with no body returned
C4_StrictConflictRejects ==
    (pc # "call" /\ mode = "strict" /\ NonEmptyPolicy /\ HasClientObject
        /\ Mismatches # {})
    => /\ pc = "threw"
       /\ error.code = "ERR_PROVIDER_CONFLICT"
       /\ result = Undef

\* C5: strict mode, a non-empty policy, either soft-enforce setting: when the
\* call returns, every field the policy sets has the policy's value in the
\* result's provider.
C5_StrictSuccessKeepsPolicy ==
    (pc = "returned" /\ mode = "strict" /\ NonEmptyPolicy)
    => \A f \in PolicySet :
            Field(heap, ResultProv, f) = Field(heap0, policy, f)

\* a strict success with soft-enforce on in which the client repeats the
\* policy's allow-list and leaves the policy's sort to be filled in
C5_Witness ==
    /\ pc = "returned" /\ mode = "strict" /\ softEnforceOnly
    /\ HasClientObject
    /\ {"only", "sort"} \subseteq PolicySet
    /\ "only" \in ClientSet /\ "sort" \notin ClientSet
    /\ Len(Prop(heap0, policy, "only")[2]) = 2

\* C6: strict mode, a client provider object whose policy-set fields all
\* match: the call returns whatever the client gives to the fields the policy
\* leaves unset, and those client fields are unchanged in the result.
C6_UnsetFieldNeverConflicts ==
    (pc # "call" /\ mode = "strict" /\ NonEmptyPolicy /\ HasClientObject
        /\ Mismatches = {})
    => /\ pc = "returned"
       /\ \A f \in ClientSet \ PolicySet :
            Field(heap, ResultProv, f) = Field(heap0, ClientProv, f)

\* C7: merge mode, softEnforceOnly on, policy.only and the client's only both
\* non-empty lists: the result's only is the client's list filtered to the
\* members of policy.only, in the client's order.
C7_SoftEnforceIntersection ==
    (pc # "call" /\ mode = "merge" /\ softEnforceOnly /\ HasClientObject
        /\ Prop(heap0, policy, "only")[1] = "arr"
        /\ Prop(heap0, ClientProv, "only")[1] = "arr"
        /\ Prop(heap0, policy, "only")[2] # <<>>
        /\ Prop(heap0, ClientProv, "only")[2] # <<>>)
    => /\ pc = "returned"
       /\ Prop(heap, ResultProv, "only") =
            Arr(FilterTo(Prop(heap0, ClientProv, "only")[2],
                         Range(Prop(heap0, policy, "only")[2])))

\* the example of the tests: policy [fireworks, moonshotai] and client
\* [fireworks, hyperbolic] give [fireworks]
C7_Witness ==
    /\ pc = "returned" /\ mode = "merge" /\ softEnforceOnly
    /\ Prop(heap0, policy, "only") = Arr(<<"fireworks", "moonshotai">>)
    /\ Prop(heap0, ClientProv, "only") = Arr(<<"fireworks", "hyperbolic">>)
    /\ Prop(heap, ResultProv, "only") = Arr(<<"fireworks">>)

\* C8: merge mode, softEnforceOnly on, policy.only and the client's only both
\* set and one of them the empty list: the result's only is the client's only,
\* as in merge mode without soft-enforce.
C8_EmptyListNoIntersection ==
    (pc # "call" /\ mode = "merge" /\ softEnforceOnly /\ HasClientObject
        /\ Prop(heap0, policy, "only")[1] = "arr"
        /\ Prop(heap0, ClientProv, "only")[1] = "arr"
        /\ (Prop(heap0, policy, "only")[2] = <<>>
            \/ Prop(heap0, ClientProv, "only")[2] = <<>>))
    => /\ pc = "returned"
       /\ Prop(heap, ResultProv, "only") = Prop(heap0, ClientProv, "only")

\* C9: every body, policy, mode and soft-enforce setting: after the call has
\* returned or thrown, every object that existed before the call (the body,
\* the policy and what they refer to) is as it was, and so are the arguments.
C9_InputsNotMutated ==
    (pc # "call")
    => /\ Len(heap) >= Len(heap0)
       /\ \A a \in 1..Len(heap0) : heap[a] = heap0[a]

\* a merge into a body that had a provider object: the returned body carries
\* a provider the caller's body does not
C9_Witness ==
    /\ pc = "returned" /\ mode = "merge" /\ HasClientObject
    /\ PolicySet \ ClientSet # {}
    /\ result # body
    /\ DeepValue(heap, ResultProv) # DeepValue(heap0, ClientProv)

\* the top-level fields of a body other than `provider`
OtherFields(H, x) == FieldsSet(H, x) \ {"provider"}

\* C10: whenever the call returns, the result has the body's top-level fields
\* other than `provider`, each with the value it had, and no new one.
C10_OtherFieldsPassThrough ==
    (pc = "returned")
    => /\ OtherFields(heap, result) = OtherFields(heap0, body)
       /\ \A f \in OtherFields(heap0, body) :
            Field(heap, result, f) = Field(heap0, body, f)

\* a policy injected into a body that has a model and a nested metadata object
C10_Witness ==
    /\ pc = "returned" /\ NonEmptyPolicy
    /\ {"model", "metadata"} \subseteq OtherFields(heap0, body)
    /\ PolicySet # {}
    /\ DeepValue(heap, ResultProv) = DeepValue(heap0, policy)

----------------------------------------------------------------------------
(* Strings whose characters the code looks at *)

UpperCaseLetters ==
    <<"A", "B", "C", "D", "E", "F", "G", "H", "I", "J", "K", "L", "M",
      "N", "O", "P", "Q", "R", "S", "T", "U", "V", "W", "X", "Y", "Z">>
LowerCaseLetters ==
    <<"a", "b", "c", "d", "e", "f", "g", "h", "i", "j", "k", "l", "m",
      "n", "o", "p", "q", "r", "s", "t", "u", "v", "w", "x", "y", "z">>

\* a user id of 129 characters, and its first 128 characters
LongUserId ==
    "uuuuuuuuuuuuuuuuuuuuuuuuuuuuuuuuuuuuuuuuuuuuuuuuuuuuuuuuuuuuuuuuuuuuuuuuuuuuuuuuuuuuuuuuuuuuuuuuuuuuuuuuuuuuuuuuuuuuuuuuuuuuuuuuu"
LongUserIdHead ==
    "uuuuuuuuuuuuuuuuuuuuuuuuuuuuuuuuuuuuuuuuuuuuuuuuuuuuuuuuuuuuuuuuuuuuuuuuuuuuuuuuuuuuuuuuuuuuuuuuuuuuuuuuuuuuuuuuuuuuuuuuuuuuuuuu"

\* the strings of the model
Strings ==
    {"claude-", "claude-haiku-", "claude-sonnet-", "claude-opus-",
     "claude-x", "Claude-X", "claude", "x/claude-x",
     "moonshotai/kimi-k2.5", "u1", "Bearer ", "bearer ",
     "sk-ant", "sk-or-", "sk-ant-1", "sk-or-2",
     "sk-or-up", "local",
     "", "Bearer local", "Bearer sk-ant-1", "Bearer sk-or-2", "Bearer sk-or-up",
     LongUserId, LongUserIdHead}

\* the characters of a string
Chars(s) ==
    CASE s = "claude-" -> <<"c", "l", "a", "u", "d", "e", "-">>
      [] s = "claude-haiku-" -> <<"c", "l", "a", "u", "d", "e", "-", "h", "a", "i", "k", "u", "-">>
      [] s = "claude-sonnet-" -> <<"c", "l", "a", "u", "d", "e", "-", "s", "o", "n", "n", "e", "t", "-">>
      [] s = "claude-opus-" -> <<"c", "l", "a", "u", "d", "e", "-", "o", "p", "u", "s", "-">>
      [] s = "claude-x" -> <<"c", "l", "a", "u", "d", "e", "-", "x">>
      [] s = "Claude-X" -> <<"C", "l", "a", "u", "d", "e", "-", "X">>
      [] s = "claude" -> <<"c", "l", "a", "u", "d", "e">>
      [] s = "x/claude-x" -> <<"x", "/", "c", "l", "a", "u", "d", "e", "-", "x">>
      [] s = "moonshotai/kimi-k2.5" -> <<"m", "o", "o", "n", "s", "h", "o", "t", "a", "i", "/", "k", "i", "m", "i", "-", "k", "2", ".", "5">>
      [] s = "u1" -> <<"u", "1">>
      [] s = "Bearer " -> <<"B", "e", "a", "r", "e", "r", " ">>
      [] s = "bearer " -> <<"b", "e", "a", "r", "e", "r", " ">>
      [] s = "sk-ant" -> <<"s", "k", "-", "a", "n", "t">>
      [] s = "sk-or-" -> <<"s", "k", "-", "o", "r", "-">>
      [] s = "sk-ant-1" -> <<"s", "k", "-", "a", "n", "t", "-", "1">>
      [] s = "sk-or-2" -> <<"s", "k", "-", "o", "r", "-", "2">>
      [] s = "sk-or-up" -> <<"s", "k", "-", "o", "r", "-", "u", "p">>
      [] s = "local" -> <<"l", "o", "c", "a", "l">>
      [] s = "" -> <<>>
      [] s = "Bearer local" -> <<"B", "e", "a", "r", "e", "r", " ", "l", "o", "c", "a", "l">>
      [] s = "Bearer sk-ant-1" -> <<"B", "e", "a", "r", "e", "r", " ", "s", "k", "-", "a", "n", "t", "-", "1">>
      [] s = "Bearer sk-or-2" -> <<"B", "e", "a", "r", "e", "r", " ", "s", "k", "-", "o", "r", "-", "2">>
      [] s = "Bearer sk-or-up" -> <<"B", "e", "a", "r", "e", "r", " ", "s", "k", "-", "o", "r", "-", "u", "p">>
      [] s = LongUserId -> [i \in 1..Len(LongUserIdHead) + 1 |-> "u"]
      [] s = LongUserIdHead -> [i \in 1..Len(LongUserIdHead) |-> "u"]

\* the string of the given characters
FromChars(cs) == CHOOSE s \in Strings : Chars(s) = cs

length(s) == Len(Chars(s))

\* s.toLowerCase(), on characters
toLowerCase(cs) ==
    [i \in 1..Len(cs) |->
        IF \E k \in 1..Len(UpperCaseLetters) : UpperCaseLetters[k] = cs[i]
        THEN LowerCaseLetters[CHOOSE k \in 1..Len(UpperCaseLetters) :
                                  UpperCaseLetters[k] = cs[i]]
        ELSE cs[i]]

\* s.startsWith(prefix), on characters
startsWith(cs, prefix) ==
    Len(prefix) <= Len(cs) /\ SubSeq(cs, 1, Len(prefix)) = prefix

\* s.slice(0, n)
slice0(s, n) == FromChars(SubSeq(Chars(s), 1, n))

----------------------------------------------------------------------------
(* server.ts: the request transforms *)

ANTHROPIC_MODEL_PREFIXES == <<"claude-", "claude-haiku-", "claude-sonnet-", "claude-opus-">>

\* isAnthropicModel matching the name as it is written
isAnthropicModel_caseSensitive(model) ==
    \E i \in 1..Len(ANTHROPIC_MODEL_PREFIXES) :
        startsWith(Chars(model), Chars(ANTHROPIC_MODEL_PREFIXES[i]))

isAnthropicModel(model) ==
    \E i \in 1..Len(ANTHROPIC_MODEL_PREFIXES) :
        startsWith(toLowerCase(Chars(model)), Chars(ANTHROPIC_MODEL_PREFIXES[i]))

DefaultTargetModel == "moonshotai/kimi-k2.5"

\* process.env.ANTHROPIC_MODEL || "moonshotai/kimi-k2.5"
getTargetModel(e) == IF Truthy(e) THEN e[2] ELSE DefaultTargetModel

IsTrue(x) == x[1] = "bool" /\ x[2]

\* the streaming fix applied on every endpoint
disableStreaming_everywhere(H, b, pathname) ==
    IF IsTrue(Prop(H, b, "stream")) THEN Assign(H, b, "stream", Bool(FALSE)) ELSE H

\* body.stream = false for a streaming request on the Anthropic endpoint
disableStreaming(H, b, pathname) ==
    IF IsTrue(Prop(H, b, "stream")) /\ pathname = "/v1/messages"
    THEN Assign(H, b, "stream", Bool(FALSE))
    ELSE H

\* body.model = getTargetModel() for an Anthropic model name; a model that
\* is no string has no toLowerCase, and the call throws a TypeError
remapModel(H, b, e) ==
    LET model == Prop(H, b, "model")
    IN  IF ~Truthy(model) THEN Returned(H, b)
        ELSE IF model[1] # "str" THEN Threw(H, "TypeError", "model")
        ELSE IF isAnthropicModel(model[2]) /\ model[2] # getTargetModel(e)
        THEN Returned(Assign(H, b, "model", Str(getTargetModel(e))), b)
        ELSE Returned(H, b)

UserIdLimit == 128

\* the truncation replacing the whole metadata object by {user_id}
truncateUserId_wholeMetadata(H, b) ==
    LET metadata == Prop(H, b, "metadata")
        user_id == Prop(H, metadata, "user_id")
    IN  IF Truthy(user_id) /\ user_id[1] = "str" /\ length(user_id[2]) > UserIdLimit
        THEN LET a == Alloc(H, Obj(<< <<"user_id", Str(slice0(user_id[2], UserIdLimit))>> >>))
             IN  Assign(a.heap, b, "metadata", a.value)
        ELSE H

\* body.metadata.user_id = body.metadata.user_id.slice(0, 128)
truncateUserId(H, b) ==
    LET metadata == Prop(H, b, "metadata")
        user_id == Prop(H, metadata, "user_id")
    IN  IF Truthy(user_id) /\ user_id[1] = "str" /\ length(user_id[2]) > UserIdLimit
        THEN Assign(H, metadata, "user_id", Str(slice0(user_id[2], UserIdLimit)))
        ELSE H

\* server.ts:161-218: the streaming fix, the model remap, the user_id
\* truncation, then the provider policy
transformAndMerge(H, b, pathname, e, pol, m, soft) ==
    LET r == remapModel(disableStreaming(H, b, pathname), b, e)
    IN  IF r.pc = "threw" THEN r
        ELSE applyProviderPolicy(truncateUserId(r.heap, b), b, pol, m, soft)

\* server.ts:220-224: body.stream = true and body.debug.echo_upstream_body =
\* true for chat completions under --debug-openrouter-upstream-body; the
\* assignment to a null body throws a TypeError
debugInjection(H, b, debug, pathname) ==
    IF ~(debug /\ pathname = "/v1/chat/completions") THEN Returned(H, b)
    ELSE IF b[1] # "ref" THEN Threw(H, "TypeError", "stream")
    ELSE LET H1 == Assign(H, b, "stream", Bool(TRUE))
             d == Prop(H1, b, "debug")
             o == AssignAll(AssignAll(<<>>, OwnEntries(H1, d)),
                            << <<"echo_upstream_body", Bool(TRUE)>> >>)
             H2 == Append(H1, o)
         IN  Returned(Assign(H2, b, "debug", Ref(Len(H2))), b)

----------------------------------------------------------------------------
(* The requests and configurations the model handles *)

\* req.headers[name] of a header the request does not carry
NoHeader == Undef

Request(method, pathname, authorization, xApiKey) ==
    [method |-> method, path |-> pathname,
     authorization |-> authorization, xApiKey |-> xApiKey]

\* the endpoints a POST can be forwarded to (server.ts:27-41)
PostPaths == {"/v1/messages", "/v1/chat/completions", "/v1/responses", "/v1/models"}

ModelNames == {"claude-x", "Claude-X", "claude", "x/claude-x", DefaultTargetModel}

\* JSON request bodies: stream, model, metadata.user_id and provider each
\* missing or present; the user_id is short, of exactly 128 characters or of
\* 129, and has a sibling in metadata; `user` is a field no step touches
RequestBodies ==
    {Null} \cup
    { Obj(Opt("stream", s) \o Opt("model", m) \o Opt("metadata", md) \o Opt("provider", p)
          \o << <<"user", Str("u1")>> >>) :
        s \in {Absent, Bool(TRUE), Bool(FALSE)},
        m \in {Absent, Bool(TRUE)} \cup { Str(n) : n \in ModelNames },
        md \in {Absent, Obj(<< <<"user_id", Str("u1")>> >>),
                Obj(<< <<"user_id", Str(LongUserId)>>, <<"trace_id", Str("u1")>> >>),
                Obj(<< <<"user_id", Str(LongUserIdHead)>>, <<"trace_id", Str("u1")>> >>)},
        p \in {Absent, Obj(<< <<"only", Arr(<<"moonshotai">>)>> >>),
               Obj(<< <<"order", Arr(<<"moonshotai">>)>>,
                      <<"sort", Str("throughput")>> >>)} }

\* the policies the server is configured with
ServerPolicies ==
    { Obj(<<>>),
      Obj(<< <<"only", Arr(<<"fireworks">>)>>, <<"sort", Str("throughput")>> >>),
      Obj(<< <<"sort", Undef>>, <<"only", Arr(<<"fireworks", "moonshotai">>)>> >>) }

\* process.env.ANTHROPIC_MODEL: unset, a model of another vendor, or an
\* Anthropic model name
TargetEnvs == {Undef, Str("x/claude-x"), Str("claude-x")}

----------------------------------------------------------------------------
(* The request transform applied to a body, then to its own output *)

TransformInit ==
    /\ \E p \in ServerPolicies, b \in RequestBodies :
        LET hp == Alloc(<<>>, p)
            hb == Alloc(hp.heap, b)
        IN  /\ heap = hb.heap
            /\ heap0 = hb.heap
            /\ policy = hp.value
            /\ body = hb.value
    /\ mode \in Modes
    /\ softEnforceOnly \in BOOLEAN
    /\ env \in TargetEnvs
    /\ \E p \in PostPaths : req = [method |-> "POST", path |-> p]
    /\ pc = "call"
    /\ result = Undef
    /\ error = NoError
    /\ firstOutput = Undef
    /\ cfg = <<>>
    /\ res = <<>>
    /\ retries = 0
    /\ calls = 0
    /\ delays = <<>>
    /\ outcomes = <<>>
    /\ requestBody = Undef
    /\ upstreamAuth = Undef
    /\ clientGone = FALSE
    /\ handlers = <<>>
    /\ alone = <<>>

\* the transform applied to the request body
TransformBody ==
    /\ pc = "call"
    /\ \E r \in {transformAndMerge(heap, body, req.path, env, policy, mode, softEnforceOnly)} :
           /\ heap' = r.heap
           /\ pc' = IF r.pc = "returned" THEN "once" ELSE "threw"
           /\ result' = r.result
           /\ error' = r.error
           /\ firstOutput' = DeepValue(r.heap, r.result)
    /\ UNCHANGED <<heap0, body, policy, mode, softEnforceOnly>>
    /\ UNCHANGED <<cfg, env, req, res, retries, calls, delays, outcomes, requestBody,
                   upstreamAuth, clientGone>>
    /\ UNCHANGED <<handlers, alone>>

\* the transform applied to the body it returned, same configuration and endpoint
TransformOutput ==
    /\ pc = "once"
    /\ \E r \in {transformAndMerge(heap, result, req.path, env, policy, mode, softEnforceOnly)} :
           /\ heap' = r.heap
           /\ pc' = IF r.pc = "returned" THEN "twice" ELSE "threwAgain"
           /\ result' = r.result
           /\ error' = r.error
    /\ UNCHANGED <<heap0, body, policy, mode, softEnforceOnly>>
    /\ UNCHANGED serverVars

TransformNext == TransformBody \/ TransformOutput

TransformSpec == TransformInit /\ [][TransformNext]_vars

----------------------------------------------------------------------------
(* C11: in override mode the transform is idempotent *)

\* C11: in override mode, applying the request transform (streaming fix,
\* model remap, user_id truncation, provider policy) to its own output, under
\* the same configuration and endpoint, succeeds and returns a body equal to
\* that output.
C11_OverrideTransformIdempotent ==
    mode = "override" =>
        /\ pc # "threwAgain"
        /\ pc = "twice" => DeepValue(heap, result) = firstOutput

\* a streaming Claude request with a long user id and its own provider went
\* through the transform twice: every step changed the body the first time
C11_Witness ==
    /\ mode = "override"
    /\ pc = "twice"
    /\ req.path = "/v1/messages"
    /\ Len(heap0[policy[2]]) > 0
    /\ IsTrue(Prop(heap0, body, "stream"))
    /\ Prop(heap0, body, "model") = Str("Claude-X")
    /\ Prop(heap0, Prop(heap0, body, "metadata"), "user_id") = Str(LongUserId)
    /\ Prop(heap0, body, "provider")[1] = "ref"
    /\ DeepValue(heap, result) # DeepValue(heap0, body)

----------------------------------------------------------------------------
(* validation.ts, http.ts and server.ts: authentication and validation *)

NoValidationError == [code |-> "", status |-> 0]

ValidationError(code, status) == [code |-> code, status |-> status]

\* s.trim() is not empty
NonBlank(cs) == \E i \in 1..Len(cs) : cs[i] # " "

RECURSIVE DropSpaces(_)
DropSpaces(cs) ==
    IF cs # <<>> /\ Head(cs) = " " THEN DropSpaces(Tail(cs)) ELSE cs

\* auth.replace(/^Bearer\s+/i, "")
StripBearer(cs) ==
    IF startsWith(toLowerCase(cs), Chars("bearer "))
    THEN DropSpaces(SubSeq(cs, Len(Chars("bearer ")) + 1, Len(cs)))
    ELSE cs

\* `Bearer ${key}`
Bearer(key) == Str(FromChars(Chars("Bearer ") \o Chars(key)))

\* the local check letting a request without any key through
validateLocalAuth_missingAllowed(request, localApiKey) ==
    IF ~Truthy(localApiKey) THEN NoValidationError
    ELSE LET auth == request.authorization
             xApiKey == request.xApiKey
             providedKey ==
                 IF auth[1] = "str" /\ startsWith(Chars(auth[2]), Chars("Bearer "))
                 THEN Str(FromChars(SubSeq(Chars(auth[2]), Len(Chars("Bearer ")) + 1,
                                           length(auth[2]))))
                 ELSE IF xApiKey[1] = "str" THEN xApiKey
                 ELSE Undef
         IN  IF providedKey # Undef /\ providedKey # localApiKey
             THEN ValidationError("ERR_UNAUTHORIZED", 401)
             ELSE NoValidationError

validateLocalAuth(request, localApiKey) ==
    IF ~Truthy(localApiKey) THEN NoValidationError
    ELSE LET auth == request.authorization
             xApiKey == request.xApiKey
             providedKey ==
                 IF auth[1] = "str" /\ startsWith(Chars(auth[2]), Chars("Bearer "))
                 THEN Str(FromChars(SubSeq(Chars(auth[2]), Len(Chars("Bearer ")) + 1,
                                           length(auth[2]))))
                 ELSE IF xApiKey[1] = "str" THEN xApiKey
                 ELSE Undef
         IN  IF providedKey # localApiKey
             THEN ValidationError("ERR_UNAUTHORIZED", 401)
             ELSE NoValidationError

validateMethod(method, pathname) ==
    IF method = "GET" /\ pathname = "/v1/models" THEN NoValidationError
    ELSE IF method = "POST" THEN NoValidationError
    ELSE ValidationError("ERR_METHOD_NOT_ALLOWED", 405)

getInboundAuth(request) ==
    LET auth == request.authorization
        xApiKey == request.xApiKey
    IN  IF auth[1] = "str" /\ NonBlank(Chars(auth[2])) THEN auth
        ELSE IF xApiKey[1] = "str" /\ NonBlank(Chars(xApiKey[2]))
        THEN IF startsWith(toLowerCase(Chars(xApiKey[2])), Chars("bearer "))
             THEN xApiKey
             ELSE Bearer(xApiKey[2])
        ELSE Undef

looksLikeAnthropicKey(auth) == startsWith(StripBearer(Chars(auth)), Chars("sk-ant"))

getUpstreamAuth(request, c) ==
    IF c.auth_mode = "upstream-key"
    THEN IF ~Truthy(c.upstream_api_key) THEN Undef ELSE Bearer(c.upstream_api_key[2])
    ELSE LET inboundAuth == getInboundAuth(request)
         IN  IF Truthy(inboundAuth)
             THEN IF looksLikeAnthropicKey(inboundAuth[2]) /\ Truthy(c.upstream_api_key)
                  THEN Bearer(c.upstream_api_key[2])
                  ELSE inboundAuth
             ELSE IF Truthy(c.upstream_api_key) THEN Bearer(c.upstream_api_key[2])
             ELSE Undef

\* the upstream URL, as its path under OPENROUTER_BASE_V1, or null
upstreamUrlForPath(pathname, c) ==
    IF pathname = "/v1/messages" /\ c.enable_anthropic THEN Str("/messages")
    ELSE IF pathname = "/v1/chat/completions" /\ c.enable_chat THEN Str("/chat/completions")
    ELSE IF pathname = "/v1/responses" /\ c.enable_responses THEN Str("/responses")
    ELSE IF pathname = "/v1/models" THEN Str("/models")
    ELSE Null

----------------------------------------------------------------------------
(* http.ts: the response to the client *)

\* status 0: the head is not written; body: the JSON members written by
\* GET /config, undefined for every other response
NoResponse ==
    [status |-> 0, code |-> "", ended |-> FALSE, failed |-> FALSE, body |-> Undef]

headersSent(r) == r.status # 0

\* res.writeHead(status, headers): throws ERR_HTTP_HEADERS_SENT once the head
\* is written; the response then stays as it was
writeHead(r, status) ==
    IF headersSent(r) THEN [r EXCEPT !.failed = TRUE]
    ELSE [r EXCEPT !.status = status]

\* a response that is never ended
end_forgotten(r) == r

\* res.end()
end(r) == [r EXCEPT !.ended = TRUE]

\* writeJson(res, status, obj), obj's error code kept
writeJson(r, status, code) ==
    IF headersSent(r) THEN [r EXCEPT !.failed = TRUE]
    ELSE end([writeHead(r, status) EXCEPT !.code = code])

writeError(r, status, code) == writeJson(r, status, code)

----------------------------------------------------------------------------
(* server.ts: the request handler *)

\* the configuration as the object cfg, its keys in the order of ShimConfig
configObject(c) ==
    << <<"enable_anthropic", Bool(c.enable_anthropic)>>,
       <<"enable_chat", Bool(c.enable_chat)>>,
       <<"enable_responses", Bool(c.enable_responses)>>,
       <<"auth_mode", Str(c.auth_mode)>>,
       <<"upstream_api_key", c.upstream_api_key>>,
       <<"local_api_key", c.local_api_key>>,
       <<"debug_openrouter_upstream_body", Bool(c.debug_openrouter_upstream_body)>> >>

\* const { upstream_api_key, ...safe } = cfg
sanitizedConfig(c) ==
    SelectSeq(configObject(c), LAMBDA e : e[1] # "upstream_api_key")

\* JSON.stringify(obj) for an object of scalars: the members whose value is
\* not undefined, in order
JSONmembers(entries) == SelectSeq(entries, LAMBDA e : e[2] # Undef)

\* server.ts:87-141: the answers given before the body is read; NoResponse
\* when the request goes on
earlyResponse(request, c) ==
    LET authError == validateLocalAuth(request, c.local_api_key)
        methodError == validateMethod(request.method, request.path)
    IN  IF request.method = "GET" /\ request.path \in {"/healthz", "/version"}
        THEN writeJson(NoResponse, 200, "")
        ELSE IF request.method = "GET" /\ request.path = "/config"
        THEN [writeJson(NoResponse, 200, "") EXCEPT !.body = JSONmembers(sanitizedConfig(c))]
        ELSE IF request.method = "OPTIONS" THEN end(writeHead(NoResponse, 200))
        ELSE IF ~Truthy(upstreamUrlForPath(request.path, c))
        THEN writeError(NoResponse, 404, "")
        ELSE IF Truthy(c.local_api_key) /\ authError # NoValidationError
        THEN writeError(NoResponse, authError.status, authError.code)
        ELSE IF methodError # NoValidationError
        THEN writeError(NoResponse, methodError.status, methodError.code)
        ELSE IF ~Truthy(getUpstreamAuth(request, c))
        THEN writeError(NoResponse, 401, "ERR_MISSING_AUTH")
        ELSE NoResponse

\* readJsonBody: the body is too large, is no JSON, is blank, or parses
readJsonBody(H, raw) ==
    CASE raw[1] = "tooLarge" -> Threw(H, "ERR_BODY_TOO_LARGE", "")
      [] raw[1] = "invalid" -> Threw(H, "", "")
      [] raw[1] = "blank" ->
            LET p == Alloc(H, Obj(<<>>)) IN Returned(p.heap, p.value)
      [] OTHER ->
            LET p == JSONparse(H, raw[2]) IN Returned(p.heap, p.value)

\* server.ts:161-224: the transforms, the provider policy, the debug injection
processBody(H, b, pathname, e, pol, m, soft, debug) ==
    LET t == transformAndMerge(H, b, pathname, e, pol, m, soft)
    IN  IF t.pc = "threw" THEN t
        ELSE debugInjection(t.heap, t.result, debug, pathname)

\* the answer to a request whose provider conflicts, with the conflict let through
conflictResponse_internal(r, e) == writeError(r, 500, "ERR_INTERNAL")

\* server.ts:213-218: 422 for a policy conflict; any other error is thrown
\* on to the handler's outer catch (server.ts:327-332)
conflictResponse(r, e) ==
    IF e.code = "ERR_PROVIDER_CONFLICT" THEN writeError(r, 422, e.code)
    ELSE writeError(r, 500, "ERR_INTERNAL")

retryDelays == <<1000, 2000, 4000, 8000, 12000, 18000, 24000, 32000>>

\* every endpoint retried like the Anthropic one
maxRetries_everywhere(pathname) == Len(retryDelays)

\* one retry more than there are delays
maxRetries_oneMore(pathname) ==
    IF pathname = "/v1/messages" THEN Len(retryDelays) + 1 ELSE 0

maxRetries(pathname) == IF pathname = "/v1/messages" THEN Len(retryDelays) ELSE 0

\* a retry on 429 and on 500
shouldRetry_serverError(status, n, pathname) ==
    status \in {429, 500} /\ n < maxRetries(pathname)

\* upstreamResp.status === 429 && retries < maxRetries
shouldRetry(status, n, pathname) == status = 429 /\ n < maxRetries(pathname)

\* the first delay before every retry
delayMs_first(n) == retryDelays[1]

\* retryDelays[retries]; setTimeout takes a delay that is no number as 1 ms
delayMs(n) == IF n < Len(retryDelays) THEN retryDelays[n + 1] ELSE 1

\* a failed upstream call left to the handler's outer catch
upstreamFailed_internal(r) == writeError(r, 500, "ERR_INTERNAL")

\* server.ts:290-293: the catch around fetch
upstreamFailed(r) == writeError(r, 502, "ERR_UPSTREAM_FAILED")

Status(n) == <<"status", n>>
Failure(kind) == <<"error", kind>>

----------------------------------------------------------------------------
(* One request through the handler *)

Methods == {"GET", "POST", "OPTIONS", "DELETE"}

Paths == PostPaths \cup {"/healthz", "/version", "/config", "/v2/unknown"}

Requests ==
    { Request(m, p, a, x) :
        m \in Methods, p \in Paths,
        a \in {NoHeader, Str("Bearer local"), Str("Bearer sk-ant-1"), Str("Bearer sk-or-2")},
        x \in {NoHeader, Str("local"), Str("sk-ant-1")} }

\* the bodies of forwarded requests
ForwardedBodies ==
    {Null} \cup
    { Obj(Opt("stream", s) \o Opt("model", m) \o Opt("provider", p)) :
        s \in {Absent, Bool(TRUE), Bool(FALSE)},
        m \in {Absent, Bool(TRUE)} \cup { Str(n) : n \in ModelNames },
        p \in {Absent, Obj(<< <<"only", Arr(<<"moonshotai">>)>> >>)} }

RawBodies ==
    {<<"tooLarge", Null>>, <<"invalid", Null>>, <<"blank", Null>>} \cup
    { <<"json", t>> : t \in ForwardedBodies }

\* what the upstream answers with
UpstreamStatuses == {200, 400, 429, 500}

\* why a call to the upstream fails: no connection, or AbortSignal.timeout
FailureKinds == {"connect", "timeout"}

ServerPolicy == Obj(<< <<"only", Arr(<<"fireworks">>)>>, <<"sort", Str("throughput")>> >>)

ShimConfig(debug, responses, authMode, upstreamKey, localKey) ==
    [debug_openrouter_upstream_body |-> debug,
     enable_anthropic |-> TRUE, enable_chat |-> TRUE, enable_responses |-> responses,
     auth_mode |-> authMode, upstream_api_key |-> upstreamKey, local_api_key |-> localKey]

\* the configurations: every merge mode, ANTHROPIC_MODEL and debug flag with a
\* configured upstream key; and the pass-through of the client's key behind a
\* local key, with an empty policy and /v1/responses disabled
Configs ==
    { [cfg |-> ShimConfig(d, TRUE, "upstream-key", Str("sk-or-up"), Undef),
       merge_mode |-> m, env |-> e, policy |-> ServerPolicy] :
        d \in BOOLEAN, m \in Modes, e \in {Undef, Str("claude-x")} }
    \cup
    { [cfg |-> ShimConfig(d, FALSE, "passthrough", Undef, Str("local")),
       merge_mode |-> "merge", env |-> Undef, policy |-> Obj(<<>>)] :
        d \in BOOLEAN }

Init ==
    /\ \E c \in Configs :
        LET hp == Alloc(<<>>, c.policy)
        IN  /\ heap = hp.heap
            /\ heap0 = hp.heap
            /\ policy = hp.value
            /\ mode = c.merge_mode
            /\ env = c.env
            /\ cfg = c.cfg
    /\ softEnforceOnly = FALSE
    /\ body = Undef
    /\ result = Undef
    /\ error = NoError
    /\ pc = "listening"
    /\ req = [method |-> "", path |-> ""]
    /\ res = NoResponse
    /\ retries = 0
    /\ calls = 0
    /\ delays = <<>>
    /\ outcomes = <<>>
    /\ requestBody = Undef
    /\ upstreamAuth = Undef
    /\ clientGone = FALSE
    /\ firstOutput = Undef
    /\ handlers = <<>>
    /\ alone = <<>>

\* server.ts:83-147 and, for a GET, on to the first fetch (server.ts:249-278)
Receive ==
    /\ pc = "listening"
    /\ \E request \in Requests :
        \E early \in {earlyResponse(request, cfg)} :
            /\ req' = [method |-> request.method, path |-> request.path]
            /\ IF early # NoResponse
               THEN /\ res' = early
                    /\ pc' = "done"
                    /\ UNCHANGED <<upstreamAuth, calls>>
               ELSE /\ upstreamAuth' = getUpstreamAuth(request, cfg)
                    /\ res' = res
                    /\ IF request.method = "POST"
                       THEN pc' = "readBody" /\ calls' = calls
                       ELSE pc' = "fetch" /\ calls' = calls + 1
    /\ UNCHANGED bodyVars
    /\ UNCHANGED <<cfg, env, retries, delays, outcomes, requestBody, clientGone, firstOutput>>
    /\ UNCHANGED <<handlers, alone>>

\* server.ts:147-278: the body is read, checked and transformed, and the
\* first call to the upstream is made
BodyRead ==
    /\ pc = "readBody"
    /\ \E raw \in RawBodies :
        \E rd \in {readJsonBody(heap, raw)} :
            IF rd.pc = "threw"
            THEN /\ res' = IF rd.error.code = "ERR_BODY_TOO_LARGE"
                           THEN writeError(res, 413, "ERR_BODY_TOO_LARGE")
                           ELSE writeError(res, 400, "ERR_INVALID_BODY")
                 /\ pc' = "done"
                 /\ UNCHANGED <<heap, heap0, body, result, error, calls, requestBody>>
            ELSE \E t \in {processBody(rd.heap, rd.result, req.path, env, policy, mode,
                                       softEnforceOnly, cfg.debug_openrouter_upstream_body)} :
                 /\ heap0' = rd.heap
                 /\ body' = rd.result
                 /\ heap' = t.heap
                 /\ result' = t.result
                 /\ error' = t.error
                 /\ IF t.pc = "threw"
                    THEN /\ res' = conflictResponse(res, t.error)
                         /\ pc' = "done"
                         /\ UNCHANGED <<calls, requestBody>>
                    ELSE /\ requestBody' = JSONstringify(t.heap, t.result)
                         /\ calls' = calls + 1
                         /\ pc' = "fetch"
                         /\ res' = res
    /\ UNCHANGED <<policy, mode, softEnforceOnly>>
    /\ UNCHANGED <<cfg, env, req, retries, delays, outcomes, upstreamAuth, clientGone,
                   firstOutput>>
    /\ UNCHANGED <<handlers, alone>>

\* server.ts:273-289 and http.ts:46-63: fetch resolves with a response; a 429
\* within the budget starts a delay, any other response is relayed
UpstreamResponds ==
    /\ pc = "fetch"
    /\ \E status \in UpstreamStatuses, hasBody \in BOOLEAN :
        /\ outcomes' = Append(outcomes, Status(status))
        /\ IF shouldRetry(status, retries, req.path)
           THEN /\ delays' = Append(delays, delayMs(retries))
                /\ retries' = retries + 1
                /\ pc' = "sleep"
                /\ res' = res
           ELSE /\ res' = IF hasBody THEN writeHead(res, status)
                          ELSE end(writeHead(res, status))
                /\ pc' = IF hasBody THEN "pipe" ELSE "done"
                /\ UNCHANGED <<delays, retries>>
    /\ UNCHANGED bodyVars
    /\ UNCHANGED <<cfg, env, req, calls, requestBody, upstreamAuth, clientGone, firstOutput>>
    /\ UNCHANGED <<handlers, alone>>

\* server.ts:290-293: fetch rejects, for a connection error or the timeout
UpstreamFails ==
    /\ pc = "fetch"
    /\ \E kind \in FailureKinds : outcomes' = Append(outcomes, Failure(kind))
    /\ res' = upstreamFailed(res)
    /\ pc' = "done"
    /\ UNCHANGED bodyVars
    /\ UNCHANGED <<cfg, env, req, retries, calls, delays, requestBody, upstreamAuth,
                   clientGone, firstOutput>>
    /\ UNCHANGED <<handlers, alone>>

\* server.ts:285-286 and 260-278: the delay is over, the next call is made
TimerFires ==
    /\ pc = "sleep"
    /\ requestBody' = IF req.method = "POST" THEN JSONstringify(heap, result) ELSE Undef
    /\ calls' = calls + 1
    /\ pc' = "fetch"
    /\ UNCHANGED bodyVars
    /\ UNCHANGED <<cfg, env, req, res, retries, delays, outcomes, upstreamAuth, clientGone,
                   firstOutput>>
    /\ UNCHANGED <<handlers, alone>>

\* http.ts:65-76: the upstream body has been written through, res.end()
RelayCompletes ==
    /\ pc = "pipe"
    /\ res' = end(res)
    /\ pc' = "done"
    /\ UNCHANGED bodyVars
    /\ UNCHANGED <<cfg, env, req, retries, calls, delays, outcomes, requestBody,
                   upstreamAuth, clientGone, firstOutput>>
    /\ UNCHANGED <<handlers, alone>>

\* http.ts:65-76 and server.ts:327-332: reading the upstream body fails;
\* res.end() in the finally, then writeError in the handler's outer catch
RelayFails ==
    /\ pc = "pipe"
    /\ res' = writeError(end(res), 500, "ERR_INTERNAL")
    /\ pc' = "done"
    /\ UNCHANGED bodyVars
    /\ UNCHANGED <<cfg, env, req, retries, calls, delays, outcomes, requestBody,
                   upstreamAuth, clientGone, firstOutput>>
    /\ UNCHANGED <<handlers, alone>>

\* the client closes its connection while the handler waits for the
\* upstream, for a delay or for the upstream body; nothing in the handler
\* listens for it
ClientDisconnects ==
    /\ pc \in {"fetch", "sleep", "pipe"}
    /\ ~clientGone
    /\ clientGone' = TRUE
    /\ UNCHANGED pc
    /\ UNCHANGED bodyVars
    /\ UNCHANGED <<cfg, env, req, res, retries, calls, delays, outcomes, requestBody,
                   upstreamAuth, firstOutput>>
    /\ UNCHANGED <<handlers, alone>>

Next ==
    \/ Receive
    \/ BodyRead
    \/ UpstreamResponds
    \/ UpstreamFails
    \/ TimerFires
    \/ RelayCompletes
    \/ RelayFails
    \/ ClientDisconnects

Spec == Init /\ [][Next]_vars

----------------------------------------------------------------------------
(* Vocabulary of the dispatch properties *)

Is429(o) == o[1] = "status" /\ o[2] = 429

\* the first k upstream calls were all answered 429
All429(k) == k <= Len(outcomes) /\ \A i \in 1..k : Is429(outcomes[i])

\* the handler has passed the dispatch loop on to the relay, or has answered
Settled == pc \in {"pipe", "done"}

\* the retry schedule as the documentation gives it (api.md:182-184)
DocumentedSchedule == <<1000, 2000, 4000, 8000, 12000, 18000, 24000, 32000>>

----------------------------------------------------------------------------
(* C12: the retry budget depends on the endpoint alone *)

\* C12: a request to /v1/messages has a budget of 8 retries, and every 429
\* within it is retried; a request to any other forwarded endpoint has none,
\* so that a 429 there is relayed as the final status after exactly one
\* upstream call and no delay.
C12_RetryBudgetByEndpoint ==
    /\ retries <= (IF req.path = "/v1/messages" THEN 8 ELSE 0)
    /\ req.path = "/v1/messages" =>
           \A k \in 1..Len(outcomes) : (k <= 8 /\ Is429(outcomes[k])) => retries >= k
    /\ (req.path # "/v1/messages" /\ outcomes # <<>> /\ Is429(outcomes[1])) =>
           /\ calls = 1
           /\ delays = <<>>
           /\ Settled
           /\ res.status = 429

\* a 429 on the chat endpoint was relayed after one call
C12_Witness ==
    /\ req.path = "/v1/chat/completions"
    /\ outcomes = <<Status(429)>>
    /\ pc = "done"
    /\ res.status = 429
    /\ calls = 1

----------------------------------------------------------------------------
(* C13: the delays follow the schedule *)

\* C13: on the retry-enabled endpoint the i-th retry waits exactly the i-th
\* entry of [1000, 2000, 4000, 8000, 12000, 18000, 24000, 32000] ms: one delay
\* per retry, in schedule order, none skipped or repeated; upstream answers
\* 429, 429, 200 end with status 200 after exactly the delays 1000 and 2000.
C13_DelaysFollowSchedule ==
    /\ Len(delays) = retries
    /\ req.path = "/v1/messages" =>
           Len(delays) = Cardinality({ i \in 1..Len(outcomes) : i <= 8 /\ Is429(outcomes[i]) })
    /\ \A i \in 1..Len(delays) : delays[i] = DocumentedSchedule[i]
    /\ outcomes = <<Status(429), Status(429), Status(200)>> =>
           /\ res.status = 200
           /\ delays = <<1000, 2000>>
           /\ calls = 3

\* 429, 429, 200 on /v1/messages, relayed to the end
C13_Witness ==
    /\ req.path = "/v1/messages"
    /\ outcomes = <<Status(429), Status(429), Status(200)>>
    /\ delays = <<1000, 2000>>
    /\ res.status = 200
    /\ pc = "done"

----------------------------------------------------------------------------
(* C14: the budget runs out *)

\* C14: after 8 consecutive 429 responses on /v1/messages the 9th upstream
\* response is relayed with its own status, a 429 as a 429, and there is
\* never a 10th upstream call.
C14_BudgetExhaustion ==
    /\ calls <= 9
    /\ (req.path = "/v1/messages" /\ All429(8) /\ Len(outcomes) > 8) =>
           /\ Len(outcomes) = 9
           /\ calls = 9
           /\ Settled
           /\ outcomes[9][1] = "status" => res.status = outcomes[9][2]

\* nine 429 in a row: the ninth was relayed
C14_Witness ==
    /\ req.path = "/v1/messages"
    /\ All429(9)
    /\ calls = 9
    /\ pc = "done"
    /\ res.status = 429
    /\ delays = DocumentedSchedule

----------------------------------------------------------------------------
(* C15: only 429 is retried *)

\* C15: an upstream response with any status but 429 ends the dispatch at
\* once: it is the last upstream call, no delay follows it, and it is the
\* response relayed to the client.
C15_Only429Retried ==
    \A i \in 1..Len(outcomes) :
        (outcomes[i][1] = "status" /\ outcomes[i][2] # 429) =>
            /\ i = Len(outcomes)
            /\ calls = i
            /\ Len(delays) = i - 1
            /\ Settled
            /\ res.status = outcomes[i][2]

\* a 500 after one retried 429 was relayed, not retried
C15_Witness ==
    /\ req.path = "/v1/messages"
    /\ outcomes = <<Status(429), Status(500)>>
    /\ calls = 2
    /\ delays = <<1000>>
    /\ pc = "done"
    /\ res.status = 500

----------------------------------------------------------------------------
(* C16: a transport failure is not retried *)

\* C16: an upstream call that fails, for a connection error or the
\* per-attempt timeout, on any endpoint and at any attempt, ends the dispatch
\* at once with no further call or delay, and the client gets 502 with code
\* ERR_UPSTREAM_FAILED.
C16_TransportFailureNotRetried ==
    \A i \in 1..Len(outcomes) :
        outcomes[i][1] = "error" =>
            /\ i = Len(outcomes)
            /\ calls = i
            /\ Len(delays) = i - 1
            /\ pc = "done"
            /\ res.status = 502
            /\ res.code = "ERR_UPSTREAM_FAILED"
            /\ res.ended

\* the third call timed out after two retried 429
C16_Witness ==
    /\ req.path = "/v1/messages"
    /\ outcomes = <<Status(429), Status(429), Failure("timeout")>>
    /\ calls = 3
    /\ delays = <<1000, 2000>>
    /\ res.status = 502
    /\ res.code = "ERR_UPSTREAM_FAILED"

----------------------------------------------------------------------------
(* C17: cancellation when the client disconnects *)

\* C17: once the client has disconnected, during a retry wait or with an
\* upstream call in flight, the pending delay and the call are abandoned: no
\* further upstream attempt is made for the request and no further delay is
\* begun.
C17_CancelOnDisconnect ==
    [][clientGone => (calls' = calls /\ delays' = delays)]_vars

----------------------------------------------------------------------------
(* C18: a policy conflict is answered before any upstream call *)

----------------------------------------------------------------------------
(* Vocabulary of the properties of what is sent upstream *)

\* the member `key` of a JSON text
Member0(text, key) == IF text[1] = "obj" THEN GetProp(text[2], key) ELSE Undef

\* a POST request was forwarded: its body was sent upstream
ForwardedPost == req.method = "POST" /\ calls > 0

ReceivedStream == Prop(heap0, body, "stream")
SentStream == Member0(requestBody, "stream")

ReceivedModel == Prop(heap0, body, "model")
SentModel == Member0(requestBody, "model")

----------------------------------------------------------------------------
(* C19: where the stream flag changes *)

----------------------------------------------------------------------------
(* C20: the model remap *)

\* C20: for every forwarded POST body the model sent upstream is the
\* configured target model (ANTHROPIC_MODEL, or moonshotai/kimi-k2.5 when it
\* is not set) when the received model starts with "claude-" whatever the
\* case of its letters, and the received model unchanged otherwise; a model
\* equal to the target is sent as it is.
C20_ModelRemap ==
    ForwardedPost =>
        IF ReceivedModel[1] = "str"
               /\ startsWith(toLowerCase(Chars(ReceivedModel[2])), Chars("claude-"))
        THEN SentModel = Str(IF env[1] = "str" THEN env[2] ELSE "moonshotai/kimi-k2.5")
        ELSE SentModel = ReceivedModel

\* Claude-X was received and the default target was sent
C20_Witness ==
    /\ ForwardedPost
    /\ ReceivedModel = Str("Claude-X")
    /\ env = Undef
    /\ SentModel = Str("moonshotai/kimi-k2.5")

----------------------------------------------------------------------------
(* C21: the user_id truncation, checked under TransformSpec *)

\* metadata.user_id as the request carried it, and as the transform leaves it
ReceivedMetadata == Prop(heap0, body, "metadata")
SentMetadata == Prop(heap, result, "metadata")
ReceivedUserId == Prop(heap0, ReceivedMetadata, "user_id")
SentUserId == Prop(heap, SentMetadata, "user_id")

\* the steps of the transform other than the truncation write these
StepFields == {"stream", "model", "provider", "metadata"}

\* C21: the body the transform returns carries the first 128 characters of the
\* received metadata.user_id when that is a string longer than 128, and the
\* received value otherwise; the other fields of metadata and the fields of
\* the body that no other step writes are as received.
C21_UserIdTruncation ==
    (pc = "once") =>
        /\ IF ReceivedUserId[1] = "str" /\ Len(Chars(ReceivedUserId[2])) > 128
           THEN /\ SentUserId[1] = "str"
                /\ Chars(SentUserId[2]) = SubSeq(Chars(ReceivedUserId[2]), 1, 128)
           ELSE SentUserId = ReceivedUserId
        /\ FieldsSet(heap, SentMetadata) = FieldsSet(heap0, ReceivedMetadata)
        /\ \A f \in FieldsSet(heap0, ReceivedMetadata) \ {"user_id"} :
             Field(heap, SentMetadata, f) = Field(heap0, ReceivedMetadata, f)
        /\ FieldsSet(heap, result) \ StepFields = FieldsSet(heap0, body) \ StepFields
        /\ \A f \in FieldsSet(heap0, body) \ StepFields :
             Field(heap, result, f) = Field(heap0, body, f)

\* a user_id of 129 characters was cut to 128 and its sibling kept
C21_Witness ==
    /\ pc = "once"
    /\ ReceivedUserId = Str(LongUserId)
    /\ SentUserId = Str(LongUserIdHead)
    /\ Field(heap, SentMetadata, "trace_id") = Str("u1")
    /\ Field(heap, result, "user") = Str("u1")

----------------------------------------------------------------------------
(* Several requests in flight: http.createServer calls the handler once per *)
(* request (server.ts:83-86); each invocation has its own req, res and      *)
(* locals, and all share the heap and the configuration                     *)

\* the invocations in flight together
InFlight == {"r1", "r2"}

\* an invocation before its request has arrived
NewHandler ==
    [pc |-> "listening", req |-> [method |-> "", path |-> ""], res |-> NoResponse,
     retries |-> 0, calls |-> 0, delays |-> <<>>, outcomes |-> <<>>,
     body |-> Undef, result |-> Undef]

\* server.ts:83-147 and, for a GET, on to the first fetch
onRequest(h, c, request) ==
    LET early == earlyResponse(request, c)
        g == [h EXCEPT !.req = [method |-> request.method, path |-> request.path]]
    IN  IF early # NoResponse THEN [g EXCEPT !.res = early, !.pc = "done"]
        ELSE IF request.method = "POST" THEN [g EXCEPT !.pc = "readBody"]
        ELSE [g EXCEPT !.pc = "fetch", !.calls = @ + 1]

\* server.ts:147-278: the body is read, checked and transformed on the shared
\* heap, and the first call to the upstream is made
onBody(H, h, raw, c, e, pol, m, soft) ==
    LET rd == readJsonBody(H, raw)
        t == processBody(rd.heap, rd.result, h.req.path, e, pol, m, soft,
                         c.debug_openrouter_upstream_body)
    IN  IF rd.pc = "threw"
        THEN [heap |-> H,
              handler |-> [h EXCEPT !.pc = "done",
                                    !.res = IF rd.error.code = "ERR_BODY_TOO_LARGE"
                                            THEN writeError(@, 413, "ERR_BODY_TOO_LARGE")
                                            ELSE writeError(@, 400, "ERR_INVALID_BODY")]]
        ELSE IF t.pc = "threw"
        THEN [heap |-> t.heap,
              handler |-> [h EXCEPT !.pc = "done", !.body = rd.result,
                                    !.res = conflictResponse(@, t.error)]]
        ELSE [heap |-> t.heap,
              handler |-> [h EXCEPT !.pc = "fetch", !.body = rd.result,
                                    !.result = t.result, !.calls = @ + 1]]

\* server.ts:273-289 and http.ts:46-63: fetch resolves with a response
onResponse(h, status, hasBody) ==
    LET g == [h EXCEPT !.outcomes = Append(@, Status(status))]
    IN  IF shouldRetry(status, h.retries, h.req.path)
        THEN [g EXCEPT !.delays = Append(@, delayMs(h.retries)),
                       !.retries = @ + 1,
                       !.pc = "sleep"]
        ELSE IF hasBody THEN [g EXCEPT !.res = writeHead(@, status), !.pc = "pipe"]
        ELSE [g EXCEPT !.res = end(writeHead(@, status)), !.pc = "done"]

\* server.ts:290-293: fetch rejects
onFailure(h, kind) ==
    [h EXCEPT !.outcomes = Append(@, Failure(kind)),
              !.res = upstreamFailed(@),
              !.pc = "done"]

\* server.ts:285-286 and 260-278: the delay is over, the next call is made
onTimer(h) ==
    [h EXCEPT !.calls = @ + 1, !.pc = "fetch"]

\* http.ts:65-76: the upstream body has been written through
onRelayed(h) ==
    [h EXCEPT !.res = end(@), !.pc = "done"]

\* http.ts:65-76 and server.ts:327-332: reading the upstream body fails
onRelayFailed(h) ==
    [h EXCEPT !.res = writeError(end(@), 500, "ERR_INTERNAL"), !.pc = "done"]

\* a handler that spins through its delay keeps the event loop to itself
holdsEventLoop_spin(h) == h.pc = "sleep"

\* server.ts:285: the delay is a timer that is awaited; every await of the
\* handler returns to the event loop, whatever the handler waits for
holdsEventLoop(h) == FALSE

\* the event loop can run a callback of invocation r
Runnable(r) == \A q \in InFlight \ {r} : ~holdsEventLoop(handlers[q])

\* the requests, bodies and upstream answers of the concurrent runs
ConcurrentRequests ==
    { r \in Requests :
        /\ r.method = "POST"
        /\ r.path \in {"/v1/messages", "/v1/chat/completions"}
        /\ r.authorization = NoHeader /\ r.xApiKey = NoHeader }

ConcurrentBodies ==
    { raw \in RawBodies :
        \/ raw[1] = "blank"
        \/ raw = <<"json", Obj(<< <<"provider", Obj(<< <<"only", Arr(<<"moonshotai">>)>> >>)>> >>)>> }

ConcurrentStatuses == {200, 429}

ConcurrentInit ==
    /\ \E c \in { k \in Configs : k.merge_mode = "strict" /\ k.env = Undef
                                    /\ ~k.cfg.debug_openrouter_upstream_body } :
        LET hp == Alloc(<<>>, c.policy)
        IN  /\ heap = hp.heap
            /\ heap0 = hp.heap
            /\ policy = hp.value
            /\ mode = c.merge_mode
            /\ env = c.env
            /\ cfg = c.cfg
            /\ alone = [r \in InFlight |-> [heap |-> hp.heap, handler |-> NewHandler]]
    /\ softEnforceOnly = FALSE
    /\ handlers = [r \in InFlight |-> NewHandler]
    /\ body = Undef
    /\ result = Undef
    /\ error = NoError
    /\ pc = "serving"
    /\ req = <<>>
    /\ res = <<>>
    /\ retries = 0
    /\ calls = 0
    /\ delays = <<>>
    /\ outcomes = <<>>
    /\ requestBody = Undef
    /\ upstreamAuth = Undef
    /\ clientGone = FALSE
    /\ firstOutput = Undef

\* what no invocation writes
ConcurrentFixed ==
    <<heap0, body, policy, mode, softEnforceOnly, pc, result, error, cfg, env, req, res,
      retries, calls, delays, outcomes, requestBody, upstreamAuth, clientGone, firstOutput>>

\* each step of invocation r is taken twice: on the shared heap, and in the
\* run alone[r] of the same request with the same body and upstream answers

HandlerReceives(r) ==
    /\ handlers[r].pc = "listening"
    /\ Runnable(r)
    /\ \E request \in ConcurrentRequests :
        /\ handlers' = [handlers EXCEPT ![r] = onRequest(@, cfg, request)]
        /\ alone' = [alone EXCEPT ![r].handler = onRequest(@, cfg, request)]
    /\ UNCHANGED heap
    /\ UNCHANGED ConcurrentFixed

HandlerReadsBody(r) ==
    /\ handlers[r].pc = "readBody"
    /\ Runnable(r)
    /\ \E raw \in ConcurrentBodies :
        \E o \in {onBody(heap, handlers[r], raw, cfg, env, policy, mode, softEnforceOnly)},
           a \in {onBody(alone[r].heap, alone[r].handler, raw, cfg, env, policy, mode,
                         softEnforceOnly)} :
            /\ heap' = o.heap
            /\ handlers' = [handlers EXCEPT ![r] = o.handler]
            /\ alone' = [alone EXCEPT ![r] = a]
    /\ UNCHANGED ConcurrentFixed

HandlerGetsResponse(r) ==
    /\ handlers[r].pc = "fetch"
    /\ Runnable(r)
    /\ \E status \in ConcurrentStatuses, hasBody \in BOOLEAN :
        /\ handlers' = [handlers EXCEPT ![r] = onResponse(@, status, hasBody)]
        /\ alone' = [alone EXCEPT ![r].handler = onResponse(@, status, hasBody)]
    /\ UNCHANGED heap
    /\ UNCHANGED ConcurrentFixed

HandlerGetsFailure(r) ==
    /\ handlers[r].pc = "fetch"
    /\ Runnable(r)
    /\ handlers' = [handlers EXCEPT ![r] = onFailure(@, "timeout")]
    /\ alone' = [alone EXCEPT ![r].handler = onFailure(@, "timeout")]
    /\ UNCHANGED heap
    /\ UNCHANGED ConcurrentFixed

HandlerTimerFires(r) ==
    /\ handlers[r].pc = "sleep"
    /\ Runnable(r)
    /\ handlers' = [handlers EXCEPT ![r] = onTimer(@)]
    /\ alone' = [alone EXCEPT ![r].handler = onTimer(@)]
    /\ UNCHANGED heap
    /\ UNCHANGED ConcurrentFixed

HandlerRelayCompletes(r) ==
    /\ handlers[r].pc = "pipe"
    /\ Runnable(r)
    /\ handlers' = [handlers EXCEPT ![r] = onRelayed(@)]
    /\ alone' = [alone EXCEPT ![r].handler = onRelayed(@)]
    /\ UNCHANGED heap
    /\ UNCHANGED ConcurrentFixed

HandlerRelayFails(r) ==
    /\ handlers[r].pc = "pipe"
    /\ Runnable(r)
    /\ handlers' = [handlers EXCEPT ![r] = onRelayFailed(@)]
    /\ alone' = [alone EXCEPT ![r].handler = onRelayFailed(@)]
    /\ UNCHANGED heap
    /\ UNCHANGED ConcurrentFixed

\* the next callback of invocation r
HandlerStep(r) ==
    \/ HandlerReceives(r)
    \/ HandlerReadsBody(r)
    \/ HandlerGetsResponse(r)
    \/ HandlerGetsFailure(r)
    \/ HandlerTimerFires(r)
    \/ HandlerRelayCompletes(r)
    \/ HandlerRelayFails(r)

ConcurrentNext == \E r \in InFlight : HandlerStep(r)

ConcurrentSpec == ConcurrentInit /\ [][ConcurrentNext]_vars

\* the body an invocation sends upstream, as a value
SentBody(H, h) == IF h.result = Undef THEN Undef ELSE DeepValue(H, h.result)

----------------------------------------------------------------------------
(* The handler up to its first await, for every way of configuring the keys  *)
(* and every pair of credential headers (server.ts:83-147); the request is   *)
(* kept with its headers in req                                              *)

AuthConfigs ==
    { ShimConfig(FALSE, r, a, u, l) :
        r \in BOOLEAN,
        a \in {"upstream-key", "passthrough"},
        u \in {Undef, Str("sk-or-up")},
        l \in {Undef, Str("local")} }

AuthRequests ==
    { Request(m, p, a, x) :
        m \in Methods, p \in Paths,
        a \in {NoHeader, Str("Bearer local"), Str("Bearer sk-ant-1"), Str("Bearer sk-or-2"),
               Str("local")},
        x \in {NoHeader, Str("local"), Str("sk-ant-1"), Str("Bearer local")} }

AuthInit ==
    /\ cfg \in AuthConfigs
    /\ req \in AuthRequests
    /\ pc = "listening"
    /\ res = NoResponse
    /\ heap = <<>>
    /\ heap0 = <<>>
    /\ body = Undef
    /\ policy = Undef
    /\ mode = "merge"
    /\ softEnforceOnly = FALSE
    /\ result = Undef
    /\ error = NoError
    /\ env = Undef
    /\ retries = 0
    /\ calls = 0
    /\ delays = <<>>
    /\ outcomes = <<>>
    /\ requestBody = Undef
    /\ upstreamAuth = Undef
    /\ clientGone = FALSE
    /\ firstOutput = Undef
    /\ handlers = <<>>
    /\ alone = <<>>

\* server.ts:83-147 and, for a GET, on to the first fetch (server.ts:249-278)
AuthReceive ==
    /\ pc = "listening"
    /\ \E early \in {earlyResponse(req, cfg)} :
        IF early # NoResponse
        THEN /\ res' = early
             /\ pc' = "done"
             /\ UNCHANGED <<upstreamAuth, calls>>
        ELSE /\ upstreamAuth' = getUpstreamAuth(req, cfg)
             /\ res' = res
             /\ IF req.method = "POST"
                THEN pc' = "readBody" /\ calls' = calls
                ELSE pc' = "fetch" /\ calls' = calls + 1
    /\ UNCHANGED bodyVars
    /\ UNCHANGED <<cfg, env, req, retries, delays, outcomes, requestBody, clientGone,
                   firstOutput, handlers, alone>>

AuthNext == AuthReceive

AuthSpec == AuthInit /\ [][AuthNext]_vars

\* the API keys the shim is configured with
ConfiguredKeys == {cfg.upstream_api_key, cfg.local_api_key} \ {Undef}

\* C23: the body of the answer to GET /config has none of the configured API
\* keys (upstream key, local key) as the value of a member.
C23_ConfigSanitized ==
    (pc = "done" /\ req.method = "GET" /\ req.path = "/config")
        => \A i \in 1..Len(res.body) : res.body[i][2] \notin ConfiguredKeys

\* the endpoints that are forwarded upstream
ForwardedEndpoints == {"/v1/messages", "/v1/chat/completions", "/v1/responses", "/v1/models"}

\* the request presents exactly the local key, as a Bearer Authorization
\* header or as an x-api-key header
PresentsLocalKey ==
    /\ cfg.local_api_key # Undef
    /\ \/ req.authorization = Bearer(cfg.local_api_key[2])
       \/ req.xApiKey = cfg.local_api_key

\* a request to a forwarded endpoint, handled, that did not present the
\* configured local key
WithoutLocalKey ==
    /\ pc # "listening"
    /\ cfg.local_api_key # Undef
    /\ req.path \in ForwardedEndpoints
    /\ ~PresentsLocalKey

\* C24 as stated: with a local key configured, every request to a forwarded
\* endpoint that does not present the key is answered 401 and no upstream
\* call is made.
C24_LocalKeyProtects ==
    WithoutLocalKey => (pc = "done" /\ res.status = 401 /\ res.ended /\ calls = 0)

\* C24: with a local key configured, a request to a forwarded endpoint that
\* does not present the key causes no upstream call and no upstream
\* credential is computed for it; it is answered 200 when its method is
\* OPTIONS (the CORS preflight precedes the check), 404 when its endpoint is
\* disabled, and 401 otherwise.
C24_LocalKeyProtectsButPreflight ==
    WithoutLocalKey =>
        /\ pc = "done" /\ res.ended /\ calls = 0 /\ upstreamAuth = Undef
        /\ res.status = IF req.method = "OPTIONS" THEN 200
                        ELSE IF ~Truthy(upstreamUrlForPath(req.path, cfg)) THEN 404
                        ELSE 401

\* a POST to /v1/messages with another key in Authorization was answered 401
C24_Witness ==
    /\ WithoutLocalKey
    /\ req.method = "POST" /\ req.path = "/v1/messages"
    /\ req.authorization = Str("Bearer sk-or-2")
    /\ res.status = 401 /\ res.code = "ERR_UNAUTHORIZED"

\* the credential of an Authorization header: what follows its Bearer scheme
Credential(auth) == StripBearer(Chars(auth[2]))

\* C30: with a local key configured, the Authorization header computed for
\* an accepted request never carries the local key as its credential.
C30_LocalKeyStaysLocal ==
    (cfg.local_api_key # Undef /\ pc \in {"readBody", "fetch"})
        => Credential(upstreamAuth) # Chars(cfg.local_api_key[2])

----------------------------------------------------------------------------
(* C25, C27 and C28: more properties of applyProviderPolicy *)

\* the policy and the client both give `sort` as an object, with the same
\* keys and the same values
SameSortObject ==
    /\ HasClientObject
    /\ Prop(heap0, policy, "sort")[1] = "ref"
    /\ Prop(heap0, ClientProv, "sort")[1] = "ref"
    /\ Field(heap0, policy, "sort") = Field(heap0, ClientProv, "sort")

\* C25: strict mode, the policy's sort and the client's sort objects with the
\* same keys and values, in whatever key order: the call does not reject
\* provider.sort as a conflict.
C25_StrictDeepEquality ==
    (pc # "call" /\ mode = "strict" /\ SameSortObject)
        => ~(pc = "threw" /\ error.field = "sort")

\* the policy and the client's provider object both set `only` to a list
BothSetOnly ==
    /\ HasClientObject
    /\ Prop(heap0, policy, "only")[1] = "arr"
    /\ Prop(heap0, ClientProv, "only")[1] = "arr"

\* C27: softEnforceOnly on, merge or strict mode, policy.only and the client's
\* only both lists (empty or not): when the call returns, the result's only is
\* a list and each of its names is in policy.only.
C27_SoftEnforceNeverWidens ==
    (pc = "returned" /\ softEnforceOnly /\ mode \in {"merge", "strict"} /\ BothSetOnly)
        => /\ Prop(heap, ResultProv, "only")[1] = "arr"
           /\ Range(Prop(heap, ResultProv, "only")[2])
                \subseteq Range(Prop(heap0, policy, "only")[2])

\* an empty policy.only met a client's list of two names, and nothing is allowed
C27_Witness ==
    /\ pc = "returned" /\ softEnforceOnly /\ mode = "merge" /\ BothSetOnly
    /\ Prop(heap0, policy, "only") = Arr(<<>>)
    /\ Len(Prop(heap0, ClientProv, "only")[2]) = 2
    /\ Prop(heap, ResultProv, "only") = Arr(<<>>)

\* applyProviderPolicy applied to the body it returned, same policy, mode and
\* soft-enforce setting
ApplyToOutput ==
    /\ pc = "returned"
    /\ \E r \in {applyProviderPolicy(heap, result, policy, mode, softEnforceOnly)} :
        /\ heap' = r.heap
        /\ pc' = IF r.pc = "returned" THEN "returnedAgain" ELSE "threwAgain"
        /\ result' = r.result
        /\ error' = r.error
    /\ firstOutput' = DeepValue(heap, result)
    /\ UNCHANGED <<heap0, body, policy, mode, softEnforceOnly>>
    /\ UNCHANGED <<cfg, env, req, res, retries, calls, delays, outcomes, requestBody,
                   upstreamAuth, clientGone, handlers, alone>>

PolicyTwiceNext == ApplyProviderPolicy \/ ApplyToOutput

PolicyTwiceSpec == PolicyInit /\ [][PolicyTwiceNext]_vars

\* C28: every policy, body, mode and soft-enforce setting: the second call, on
\* the first call's result, does not throw, and its result is deep-equal to
\* the first's.
C28_PolicyIdempotent ==
    /\ pc # "threwAgain"
    /\ pc = "returnedAgain" => DeepValue(heap, result) = firstOutput

\* strict mode with soft-enforce: the first call filled the policy's sort in
\* and cut the list to the policy's, and the second call changed nothing
C28_Witness ==
    /\ pc = "returnedAgain"
    /\ mode = "strict" /\ softEnforceOnly /\ BothSetOnly
    /\ "sort" \in PolicySet \ ClientSet
    /\ firstOutput # DeepValue(heap0, body)
    /\ DeepValue(heap, result) = firstOutput

\* the first call left an empty `only` in the result's provider
FirstOnlyEmpty ==
    /\ firstOutput # Undef /\ firstOutput[1] = "object"
    /\ \E e \in firstOutput[2] :
        /\ e[1] = "provider" /\ e[2][1] = "object"
        /\ <<"only", Arr(<<>>)>> \in e[2][2]

\* C28 apart from soft-enforce meeting an empty list in the second call
C28_IdempotentButEmptyList ==
    /\ pc # "threwAgain"
    /\ (pc = "returnedAgain" /\ ~(softEnforceOnly /\ mode # "override" /\ FirstOnlyEmpty))
        => DeepValue(heap, result) = firstOutput

----------------------------------------------------------------------------
(* C26 and C29: the response is started once, and the handler terminates *)

\* C26: on every path of the handler the head of the response is written
\* once: no write of the head is attempted after the response has been
\* started, and a finished request has a started response.
C26_ResponseStartedOnce ==
    /\ ~res.failed
    /\ pc = "done" => headersSent(res)

\* The handler under fair scheduling: the request body arrives, every call to
\* the upstream resolves or rejects, every timer fires, and the upstream body
\* ends or fails
FairSpec ==
    /\ Spec
    /\ WF_vars(BodyRead)
    /\ WF_vars(UpstreamResponds \/ UpstreamFails)
    /\ WF_vars(TimerFires)
    /\ WF_vars(RelayCompletes \/ RelayFails)

\* C29: a request makes at most 9 calls to the upstream, at most 1 on an
\* endpoint other than /v1/messages, and every request that has arrived
\* eventually has its response ended, whatever the upstream answers.
C29_DispatchTerminates ==
    /\ [](calls <= IF req.path = "/v1/messages" THEN 9 ELSE 1)
    /\ (pc # "listening") ~> (pc = "done" /\ res.ended)

\* nine calls, each answered 429, and the last 429 relayed to the end
C29_Witness ==
    /\ pc = "done" /\ res.ended
    /\ calls = 9
    /\ All429(9)
    /\ res.status = 429

====
